---------------------------- MODULE Spec2Model ----------------------------
(***************************************************************************)
(* CaptionCam: the speech-recognition log (class SpeechLog) and the        *)
(* recognizer wrapper (class SpeechRecognizer) of app.js, together with    *)
(* the owner code of the page that drives them.                            *)
(*                                                                         *)
(* A transcript is a sequence of characters.  A SpeechRecognitionResult is *)
(* a record [isFinal, alt, transcript]: alt = "str" when result[0] exists  *)
(* and its transcript is a string, "null" when result[0].transcript is     *)
(* null, "none" when the result has no alternative (result[0] undefined).  *)
(* Array indices are those of JavaScript (from 0); a sequence s of the     *)
(* model holds array element ix at s[ix + 1].                              *)
(***************************************************************************)
EXTENDS Integers, Sequences, FiniteSets, TLC

\* ------------------------------------------------------------------ bounds
\* The longest results array of one SpeechRecognitionEvent.
MaxResults == 2
\* The most final results the log holds (wholeLog and currentResults together)
\* before results stop being applied.
MaxLog == 2
\* The most onCritical invocations that are counted.
MaxCritical == 2
\* The longest text handed to _addPunctuationIfNotExists on its own.
MaxText == 2
\* How many times in a row it is applied to that text.
MaxApply == 2
\* The longest transcript, and the most entries, of a window handed to
\* _trimCurrentResults on its own.
MaxTrimLen == 3
MaxWindow == 3

\* The transcripts the recognizer delivers in final and in interim results.
Transcripts == { <<>>, <<"a">>, <<"a", "b">> }
InterimTranscripts == { <<"a">> }

\* SpeechLog.maxCharacters.  The source sets 300; the model scales it to the
\* transcripts above so that two entries can exceed the budget.
maxCharacters == 2

\* ------------------------------------------------------- recognizer inputs
Results ==
    [isFinal : {TRUE}, alt : {"str"}, transcript : Transcripts]
      \cup [isFinal : {FALSE}, alt : {"str"}, transcript : InterimTranscripts]
      \cup [isFinal : {FALSE}, alt : {"null"}, transcript : {<<>>}]
      \cup [isFinal : {TRUE}, alt : {"none"}, transcript : {<<>>}]

ResultLists == UNION { [1..n -> Results] : n \in 0..MaxResults }

\* SpeechRecognitionEvent: resultIndex may be negative or past the end.
Events == [resultIndex : (-1)..MaxResults, results : ResultLists]

\* SpeechRecognitionErrorEvent
ErrorCodes == {"no-speech", "aborted", "network"}
ErrorEvents == [error : ErrorCodes, message : {"detail"}]

\* What `window` exposes.
WindowApis == {"SpeechRecognition", "webkitSpeechRecognition", "none"}

\* The arguments of _addPunctuationIfNotExists taken on its own: every string
\* of up to MaxText characters over one letter and the eight marks (named by
\* code point), and a value that is not a string (alt = "null").
Chars == {"a", "U+3002", "U+3001", "U+FF1F", "U+FF01", ".", ",", "?", "!"}
Texts == UNION { [1..n -> Chars] : n \in 0..MaxText }
TextInputs ==
    [alt : {"str"}, transcript : Texts] \cup [alt : {"null"}, transcript : {<<>>}]

\* The windows _trimCurrentResults is applied to on its own: up to MaxWindow
\* final results with transcripts of 1 to MaxTrimLen characters.
TrimTranscripts == UNION { [1..n -> {"a"}] : n \in 1..MaxTrimLen }
TrimWindows ==
    UNION { [1..n -> [isFinal : {TRUE}, alt : {"str"},
                      transcript : TrimTranscripts]] : n \in 0..MaxWindow }

\* ------------------------------------------------------------------- state
VARIABLES
    \* SpeechLog
    wholeLog,          \* archived final results of all past sessions
    currentResults,    \* final results of the current session
    interimResults,    \* interim results of the current session
    indexFinished,     \* highest index seen final, -1 before any
    \* SpeechRecognizer
    recognizer,        \* "undefined" | "null" | "object"
    isSpeechAvailable, \* onspeechstart was delivered
    available,         \* recognition is believed to work
    \* environment
    session,           \* the capability: "idle" | "listening"
    \* observation of the last handler that ran
    capStart,          \* its recognizer.start(): "none" | "started" | "InvalidStateError"
    seamLast,          \* the last currentResults entry its checkpoint archived
    criticalLog,       \* the messages passed to onCritical so far
    \* owner
    clearCaptionTimer, \* clearCaptionTimerId: "unset" (-1) | "pending" | "expired"
    \* _addPunctuationIfNotExists on its own
    text,              \* the argument
    punctuated         \* what the successive applications returned

ledgerVars == <<wholeLog, currentResults, interimResults, indexFinished>>
adapterVars == <<recognizer, isSpeechAvailable, available>>
vars == <<wholeLog, currentResults, interimResults, indexFinished,
          recognizer, isSpeechAvailable, available, session,
          capStart, seamLast, criticalLog, clearCaptionTimer,
          text, punctuated>>
punctVars == <<text, punctuated>>

\* ----------------------------------------------------------------- helpers
Max(a, b) == IF a >= b THEN a ELSE b

\* String.prototype.startsWith
startsWith(s, p) == Len(p) <= Len(s) /\ SubSeq(s, 1, Len(p)) = p

\* The ledger as one value, so that handlers can chain its operations.
Ledger == [wholeLog |-> wholeLog, currentResults |-> currentResults,
           interimResults |-> interimResults, indexFinished |-> indexFinished]

\* SpeechLog.getLastItem: the last item, or null (modelled as the empty list).
getLastItem(array) == IF Len(array) < 1 THEN <<>> ELSE <<array[Len(array)]>>

\* ---------------------------------------------------------------- SpeechLog
\* Variant of SpeechLog.init that leaves indexFinished as it is.
SpeechLog_init_KeepIndex(L) ==
    [wholeLog |-> IF Len(L.currentResults) > 0
                  THEN L.wholeLog \o L.currentResults
                  ELSE L.wholeLog,
     currentResults |-> <<>>,
     interimResults |-> <<>>,
     indexFinished |-> L.indexFinished]

\* Variant of SpeechLog.init that archives the window without emptying it.
SpeechLog_init_KeepWindow(L) ==
    [wholeLog |-> IF Len(L.currentResults) > 0
                  THEN L.wholeLog \o L.currentResults
                  ELSE L.wholeLog,
     currentResults |-> L.currentResults,
     interimResults |-> <<>>,
     indexFinished |-> -1]

\* Variant of SpeechLog.init that assigns the window to wholeLog instead of
\* concatenating it.
SpeechLog_init_Overwrite(L) ==
    [wholeLog |-> IF Len(L.currentResults) > 0
                  THEN L.currentResults
                  ELSE L.wholeLog,
     currentResults |-> <<>>,
     interimResults |-> <<>>,
     indexFinished |-> -1]

\* Variant of SpeechLog.init that clears the window without archiving it.
SpeechLog_init_NoArchive(L) ==
    [wholeLog |-> L.wholeLog,
     currentResults |-> <<>>,
     interimResults |-> <<>>,
     indexFinished |-> -1]

\* SpeechLog.init
SpeechLog_init(L) ==
    [wholeLog |-> IF Len(L.currentResults) > 0
                  THEN L.wholeLog \o L.currentResults
                  ELSE L.wholeLog,
     currentResults |-> <<>>,
     interimResults |-> <<>>,
     indexFinished |-> -1]

\* Variant of SpeechLog._pushUpdate that appends a final result without
\* looking at the last entry.
pushUpdate_AlwaysAppend(L, result) ==
    IF result.isFinal
    THEN [L EXCEPT !.currentResults = Append(L.currentResults, result)]
    ELSE [L EXCEPT !.interimResults = Append(L.interimResults, result)]

\* Variant of SpeechLog._pushUpdate with the prefix test turned around: the
\* last entry is replaced when its transcript starts with the new one.
pushUpdate_PrefixReversed(L, result) ==
    IF result.isFinal
    THEN LET last == getLastItem(L.currentResults)
             popped == IF last # <<>>
                          /\ startsWith(last[1].transcript, result.transcript)
                       THEN SubSeq(L.currentResults, 1, Len(L.currentResults) - 1)
                       ELSE L.currentResults
         IN [L EXCEPT !.currentResults = Append(popped, result)]
    ELSE [L EXCEPT !.interimResults = Append(L.interimResults, result)]

\* Variant of SpeechLog._pushUpdate that, on an empty window, compares a final
\* result with the last archived entry and replaces that one.
pushUpdate_DedupArchive(L, result) ==
    IF result.isFinal
    THEN IF L.currentResults = <<>>
         THEN LET last == getLastItem(L.wholeLog)
              IN IF last # <<>>
                    /\ startsWith(result.transcript, last[1].transcript)
                 THEN [L EXCEPT !.wholeLog = SubSeq(L.wholeLog, 1, Len(L.wholeLog) - 1),
                                !.currentResults = <<result>>]
                 ELSE [L EXCEPT !.currentResults = <<result>>]
         ELSE LET last == getLastItem(L.currentResults)
                  popped == IF startsWith(result.transcript, last[1].transcript)
                            THEN SubSeq(L.currentResults, 1, Len(L.currentResults) - 1)
                            ELSE L.currentResults
              IN [L EXCEPT !.currentResults = Append(popped, result)]
    ELSE [L EXCEPT !.interimResults = Append(L.interimResults, result)]

\* SpeechLog._pushUpdate
pushUpdate(L, result) ==
    IF result.isFinal
    THEN LET last == getLastItem(L.currentResults)
             popped == IF last # <<>>
                          /\ startsWith(result.transcript, last[1].transcript)
                       THEN SubSeq(L.currentResults, 1, Len(L.currentResults) - 1)
                       ELSE L.currentResults
         IN [L EXCEPT !.currentResults = Append(popped, result)]
    ELSE [L EXCEPT !.interimResults = Append(L.interimResults, result)]

\* Variant of the loop of SpeechLog._extractUpdate that keeps a result whose
\* transcript is the empty string.
RECURSIVE extractLoop_KeepEmpty(_, _, _, _)
extractLoop_KeepEmpty(results, ix, idx, items) ==
    IF ix >= Len(results)
    THEN [indexFinished |-> idx, items |-> items, threw |-> FALSE]
    ELSE IF ix < 0
    THEN [indexFinished |-> idx, items |-> items, threw |-> TRUE]
    ELSE LET r == results[ix + 1]
             idx2 == IF r.isFinal THEN Max(ix, idx) ELSE idx
         IN IF r.alt = "none"
            THEN [indexFinished |-> idx2, items |-> items, threw |-> TRUE]
            ELSE extractLoop_KeepEmpty(results, ix + 1, idx2,
                                       IF r.alt = "str"
                                       THEN Append(items, r) ELSE items)

\* The loop of SpeechLog._extractUpdate from index ix on: idx is indexFinished,
\* items is updatedItems.  threw: a TypeError left the loop (results[ix] is
\* undefined for ix < 0; results[ix][0] is undefined without an alternative).
RECURSIVE extractLoop(_, _, _, _)
extractLoop(results, ix, idx, items) ==
    IF ix >= Len(results)
    THEN [indexFinished |-> idx, items |-> items, threw |-> FALSE]
    ELSE IF ix < 0
    THEN [indexFinished |-> idx, items |-> items, threw |-> TRUE]
    ELSE LET r == results[ix + 1]
             idx2 == IF r.isFinal THEN Max(ix, idx) ELSE idx
         IN IF r.alt = "none"
            THEN [indexFinished |-> idx2, items |-> items, threw |-> TRUE]
            ELSE extractLoop(results, ix + 1, idx2,
                             IF r.alt = "str" /\ Len(r.transcript) > 0
                             THEN Append(items, r) ELSE items)

\* Variant of SpeechLog._extractUpdate without its two Math.max: the scan
\* starts at resultIndex and a final result at ix sets indexFinished to ix.
RECURSIVE extractLoop_Assign(_, _, _, _)
extractLoop_Assign(results, ix, idx, items) ==
    IF ix >= Len(results)
    THEN [indexFinished |-> idx, items |-> items, threw |-> FALSE]
    ELSE IF ix < 0
    THEN [indexFinished |-> idx, items |-> items, threw |-> TRUE]
    ELSE LET r == results[ix + 1]
             idx2 == IF r.isFinal THEN ix ELSE idx
         IN IF r.alt = "none"
            THEN [indexFinished |-> idx2, items |-> items, threw |-> TRUE]
            ELSE extractLoop_Assign(results, ix + 1, idx2,
                                    IF r.alt = "str" /\ Len(r.transcript) > 0
                                    THEN Append(items, r) ELSE items)

extractUpdate_NoMax(L, result) ==
    extractLoop_Assign(result.results, result.resultIndex, L.indexFinished, <<>>)

\* Variant of SpeechLog._extractUpdate whose scan starts at resultIndex
\* whatever indexFinished is.
extractUpdate_FromResultIndex(L, result) ==
    extractLoop(result.results, result.resultIndex, L.indexFinished, <<>>)

\* SpeechLog._extractUpdate
extractUpdate(L, result) ==
    extractLoop(result.results, Max(L.indexFinished, result.resultIndex),
                L.indexFinished, <<>>)

\* results.forEach(r => this._pushUpdate(r))
RECURSIVE pushAll(_, _)
pushAll(L, items) ==
    IF items = <<>> THEN L
    ELSE pushAll(pushUpdate(L, items[1]), Tail(items))

\* Variant of SpeechLog.update that empties interimResults before it looks at
\* what was collected.
SpeechLog_update_ClearFirst(L, result) ==
    LET ext == extractUpdate(L, result)
        L1 == [L EXCEPT !.indexFinished = ext.indexFinished]
        L2 == [L1 EXCEPT !.interimResults = <<>>]
    IN IF ext.threw THEN [ledger |-> L1, ret |-> "throw"]
       ELSE IF Len(ext.items) < 1 THEN [ledger |-> L2, ret |-> "false"]
       ELSE [ledger |-> pushAll(L2, ext.items), ret |-> "true"]

\* Variant of SpeechLog.update that never empties interimResults.
SpeechLog_update_KeepInterim(L, result) ==
    LET ext == extractUpdate(L, result)
        L1 == [L EXCEPT !.indexFinished = ext.indexFinished]
    IN IF ext.threw THEN [ledger |-> L1, ret |-> "throw"]
       ELSE IF Len(ext.items) < 1 THEN [ledger |-> L1, ret |-> "false"]
       ELSE [ledger |-> pushAll(L1, ext.items), ret |-> "true"]

\* SpeechLog.update: the ledger afterwards and the outcome
\* ("true" | "false" returned, "throw" when the TypeError propagates).
SpeechLog_update(L, result) ==
    LET ext == extractUpdate(L, result)
        L1 == [L EXCEPT !.indexFinished = ext.indexFinished]
    IN IF ext.threw THEN [ledger |-> L1, ret |-> "throw"]
       ELSE IF Len(ext.items) < 1 THEN [ledger |-> L1, ret |-> "false"]
       ELSE [ledger |-> pushAll([L1 EXCEPT !.interimResults = <<>>], ext.items),
             ret |-> "true"]

\* Variant of the walk of SpeechLog._trimCurrentResults that also drops at a
\* sum equal to the budget.
RECURSIVE trimLoop_AtBudget(_, _, _)
trimLoop_AtBudget(cur, ix, sum) ==
    IF ix < 0 THEN 0
    ELSE LET sum2 == sum + Len(cur[ix + 1].transcript)
         IN IF sum2 >= maxCharacters THEN ix + 1
            ELSE trimLoop_AtBudget(cur, ix - 1, sum2)

\* SpeechLog._trimCurrentResults: the walk from the newest entry (index ix)
\* backward with the running sum; the result is the number of entries shifted
\* off the front.
RECURSIVE trimLoop(_, _, _)
trimLoop(cur, ix, sum) ==
    IF ix < 0 THEN 0
    ELSE LET sum2 == sum + Len(cur[ix + 1].transcript)
         IN IF sum2 > maxCharacters THEN ix + 1
            ELSE trimLoop(cur, ix - 1, sum2)

\* SpeechLog._trimCurrentResults (no caller in the source)
trimCurrentResults(L) ==
    LET n == trimLoop(L.currentResults, Len(L.currentResults) - 1, 0)
    IN [L EXCEPT !.currentResults =
            SubSeq(L.currentResults, n + 1, Len(L.currentResults))]

\* The eight marks of _addPunctuationIfNotExists, by code point:
\* U+3002 U+3001 U+FF1F U+FF01 and . , ? !
Marks == {"U+3002", "U+3001", "U+FF1F", "U+FF01", ".", ",", "?", "!"}

\* Variant of SpeechLog._addPunctuationIfNotExists that knows only the four
\* full-width marks.
addPunctuation_FullWidthOnly(r) ==
    IF r.alt # "str" \/ Len(r.transcript) < 1 THEN <<>>
    ELSE IF r.transcript[Len(r.transcript)]
              \in {"U+3002", "U+3001", "U+FF1F", "U+FF01"}
    THEN r.transcript
    ELSE r.transcript \o <<"U+3002">>

\* SpeechLog._addPunctuationIfNotExists, for the transcript of a result r
\* (r.alt # "str": not a string).
addPunctuationIfNotExists(r) ==
    IF r.alt # "str" \/ Len(r.transcript) < 1 THEN <<>>
    ELSE IF r.transcript[Len(r.transcript)] \in Marks THEN r.transcript
    ELSE r.transcript \o <<"U+3002">>

\* One line of the export: the normalized transcript and a line break.
logLine(r) == addPunctuationIfNotExists(r) \o <<"LF">>

\* Variant of SpeechLog.getWholeLog that walks currentResults before wholeLog.
getWholeLog_WindowFirst(L) ==
    LET all == L.currentResults \o L.wholeLog \o L.interimResults
    IN [i \in 1..Len(all) |-> logLine(all[i])]

\* SpeechLog.getWholeLog
getWholeLog(L) ==
    LET all == L.wholeLog \o L.currentResults \o L.interimResults
    IN [i \in 1..Len(all) |-> logLine(all[i])]

\* The two loops of SpeechLog.getCurrentSpeech: the entries of currentResults
\* normalized, those of interimResults as they are.
RECURSIVE speechOfCurrent(_)
speechOfCurrent(rs) ==
    IF rs = <<>> THEN <<>>
    ELSE addPunctuationIfNotExists(rs[1]) \o speechOfCurrent(Tail(rs))

RECURSIVE speechOfInterim(_)
speechOfInterim(rs) ==
    IF rs = <<>> THEN <<>>
    ELSE rs[1].transcript \o speechOfInterim(Tail(rs))

\* Variant of SpeechLog.getCurrentSpeech that normalizes the interim results
\* as well.
getCurrentSpeech_AllNormalized(L) ==
    speechOfCurrent(L.currentResults) \o speechOfCurrent(L.interimResults)

\* SpeechLog.getCurrentSpeech
getCurrentSpeech(L) ==
    speechOfCurrent(L.currentResults) \o speechOfInterim(L.interimResults)

\* --------------------------------------------------------- SpeechRecognizer
\* The body of recognizer.onresult: the ledger afterwards, what update()
\* did, and the captions passed to onUpdated.
onresult(L, ev) ==
    LET u == SpeechLog_update(L, ev)
    IN [ledger |-> u.ledger, ret |-> u.ret,
        updated |-> IF u.ret = "true"
                    THEN <<getCurrentSpeech(u.ledger)>> ELSE <<>>]

\* setClearCaptionTimer of the owner, called by its onUpdated: a pending
\* timer is cancelled and a new one set.
setClearCaptionTimer == "pending"

SetLedger(L) ==
    /\ wholeLog' = L.wholeLog
    /\ currentResults' = L.currentResults
    /\ interimResults' = L.interimResults
    /\ indexFinished' = L.indexFinished

\* SpeechRecognition.start() of the platform: starts a session, or throws
\* InvalidStateError when one is already running.
capabilityStart(s) == IF s = "idle" THEN "started" ELSE "InvalidStateError"

\* SpeechRecognizer.start, as a function of the adapter, the ledger and the
\* capability's state s.
SpeechRecognizer_start(L, s) ==
    IF available # TRUE \/ recognizer \in {"undefined", "null"}
    THEN [ledger |-> L, session |-> s, ret |-> "false", capStart |-> "none"]
    ELSE [ledger |-> SpeechLog_init(L),
          session |-> "listening",
          ret |-> IF capabilityStart(s) = "started" THEN "true" ELSE "throw",
          capStart |-> capabilityStart(s)]

\* Variant of SpeechRecognizer.init without the guard against a second call.
SpeechRecognizer_init_Again(windowApi) ==
    IF windowApi = "SpeechRecognition"
    THEN [recognizer |-> "object", available |-> TRUE, ret |-> "true"]
    ELSE IF windowApi = "webkitSpeechRecognition"
    THEN [recognizer |-> "object", available |-> TRUE, ret |-> "true"]
    ELSE [recognizer |-> "null", available |-> FALSE, ret |-> "false"]

\* SpeechRecognizer.init, where window exposes windowApi: the adapter
\* afterwards and the value returned.
SpeechRecognizer_init(windowApi) ==
    IF recognizer # "undefined"
    THEN [recognizer |-> recognizer, available |-> available,
          ret |-> IF available THEN "true" ELSE "false"]
    ELSE IF windowApi = "SpeechRecognition"
    THEN [recognizer |-> "object", available |-> TRUE, ret |-> "true"]
    ELSE IF windowApi = "webkitSpeechRecognition"
    THEN [recognizer |-> "object", available |-> TRUE, ret |-> "true"]
    ELSE [recognizer |-> "null", available |-> FALSE, ret |-> "false"]

Init ==
    /\ wholeLog = <<>>
    /\ currentResults = <<>>
    /\ interimResults = <<>>
    /\ indexFinished = -1
    /\ recognizer = "undefined"
    /\ isSpeechAvailable = FALSE
    /\ available = TRUE
    /\ session = "idle"
    /\ capStart = "none"
    /\ seamLast = <<>>
    /\ criticalLog = <<>>
    /\ clearCaptionTimer = "unset"
    /\ text = [alt |-> "str", transcript |-> <<>>]
    /\ punctuated = <<>>

\* speechRecognizer.init() by the owner (prepareSpeechRecognition).  What
\* window exposes is read by the first call only, so it is an input of the call.
OwnerInit(windowApi) ==
    /\ capStart' = "none"
    /\ seamLast' = <<>>
    /\ recognizer' = SpeechRecognizer_init(windowApi).recognizer
    /\ available' = SpeechRecognizer_init(windowApi).available
    /\ UNCHANGED <<ledgerVars, isSpeechAvailable, session, criticalLog,
                 clearCaptionTimer, punctVars>>

\* speechRecognizer.start() by the owner (startSpeechRecognition)
OwnerStart ==
    LET r == SpeechRecognizer_start(Ledger, session)
    IN /\ SetLedger(r.ledger)
       /\ session' = r.session
       /\ capStart' = r.capStart
       /\ seamLast' = IF r.capStart # "none" THEN getLastItem(currentResults) ELSE <<>>
       /\ UNCHANGED <<adapterVars, criticalLog,
                 clearCaptionTimer, punctVars>>

\* recognizer.onspeechstart
OnSpeechStart ==
    /\ session = "listening"
    /\ isSpeechAvailable' = TRUE
    /\ capStart' = "none"
    /\ seamLast' = <<>>
    /\ UNCHANGED <<ledgerVars, recognizer, available, session, criticalLog,
                 clearCaptionTimer, punctVars>>

\* Variant of the onerror condition that does not read the speech flag.
isIncapable_AnyTime(ev) ==
    ev.error # "no-speech" /\ ev.error # "aborted"

\* Variant of the onerror condition that reads the speech flag inverted.
isIncapable_AfterSpeech(ev) ==
    isSpeechAvailable = TRUE /\ ev.error # "no-speech" /\ ev.error # "aborted"

\* The condition of recognizer.onerror: an error before any onspeechstart,
\* other than no-speech and aborted.
isIncapable(ev) ==
    isSpeechAvailable # TRUE /\ ev.error # "no-speech" /\ ev.error # "aborted"

\* recognizer.onerror
OnError(ev) ==
    /\ session = "listening"
    /\ capStart' = "none"
    /\ seamLast' = <<>>
    /\ IF isIncapable(ev)
       THEN /\ Len(criticalLog) < MaxCritical
            /\ available' = FALSE
            /\ criticalLog' = Append(criticalLog, <<ev.error, ev.message>>)
       ELSE UNCHANGED <<available, criticalLog>>
    /\ UNCHANGED <<ledgerVars, recognizer, isSpeechAvailable, session,
                 clearCaptionTimer, punctVars>>

\* recognizer.onresult
OnResult(ev) ==
    LET u == onresult(Ledger, ev)
    IN /\ session = "listening"
       /\ Len(u.ledger.wholeLog) + Len(u.ledger.currentResults) <= MaxLog
       /\ SetLedger(u.ledger)
       /\ clearCaptionTimer' = IF u.updated # <<>>
                               THEN setClearCaptionTimer
                               ELSE clearCaptionTimer
       /\ capStart' = "none"
       /\ seamLast' = <<>>
       /\ UNCHANGED <<adapterVars, session, criticalLog, punctVars>>

\* Variant of recognizer.onend without its speechLog.init().
OnEnd_NoCheckpoint ==
    LET r == IF available
             THEN SpeechRecognizer_start(Ledger, "idle")
             ELSE [ledger |-> Ledger, session |-> "idle", ret |-> "none",
                   capStart |-> "none"]
    IN /\ session = "listening"
       /\ SetLedger(r.ledger)
       /\ session' = r.session
       /\ capStart' = r.capStart
       /\ seamLast' = getLastItem(currentResults)
       /\ UNCHANGED <<adapterVars, criticalLog,
                 clearCaptionTimer, punctVars>>

\* recognizer.onend: the session is over when the handler runs.
OnEnd ==
    LET L1 == SpeechLog_init(Ledger)
        r == IF available
             THEN SpeechRecognizer_start(L1, "idle")
             ELSE [ledger |-> L1, session |-> "idle", ret |-> "none",
                   capStart |-> "none"]
    IN /\ session = "listening"
       /\ SetLedger(r.ledger)
       /\ session' = r.session
       /\ capStart' = r.capStart
       /\ seamLast' = getLastItem(currentResults)
       /\ UNCHANGED <<adapterVars, criticalLog,
                 clearCaptionTimer, punctVars>>

Next ==
    \/ \E windowApi \in WindowApis : OwnerInit(windowApi)
    \/ OwnerStart
    \/ OnSpeechStart
    \/ \E ev \in ErrorEvents : OnError(ev)
    \/ \E ev \in Events : OnResult(ev)
    \/ OnEnd

Spec == Init /\ [][Next]_vars

\* ------------------------------------------------- the owner's caption timer
\* The methods class SpeechLog defines.
SpeechLogMethods ==
    {"init", "update", "isString", "getLastItem", "_pushUpdate",
     "_extractUpdate", "_trimCurrentResults", "_addPunctuationIfNotExists",
     "getCurrentSpeech", "getWholeLog"}

\* The callback setClearCaptionTimer hands to setTimeout: updateCaption('')
\* and then speechLog.reset(), a call of a property that is undefined unless
\* the class defines it.
clearCaptionCallback ==
    IF "reset" \in SpeechLogMethods THEN "done" ELSE "TypeError"

\* CLEAR_CAPTION_TIMER_MSEC pass without a caption update: the callback runs.
\* The ledger is as before either way the call of reset ends.
TimerFires ==
    /\ clearCaptionTimer = "pending"
    /\ clearCaptionTimer' = "expired"
    /\ capStart' = "none"
    /\ seamLast' = <<>>
    /\ UNCHANGED <<ledgerVars, adapterVars, session, criticalLog, punctVars>>

NextOwner ==
    \/ Next
    \/ TimerFires

SpecOwner == Init /\ [][NextOwner]_vars

\* ------------------------------------- _addPunctuationIfNotExists on its own
\* The program before any call, and a text to normalize.
InitPunct ==
    /\ wholeLog = <<>>
    /\ currentResults = <<>>
    /\ interimResults = <<>>
    /\ indexFinished = -1
    /\ recognizer = "undefined"
    /\ isSpeechAvailable = FALSE
    /\ available = TRUE
    /\ session = "idle"
    /\ capStart = "none"
    /\ seamLast = <<>>
    /\ criticalLog = <<>>
    /\ clearCaptionTimer = "unset"
    /\ text \in TextInputs
    /\ punctuated = <<>>

\* One application: to the text first, then to what the last one returned.
Normalize ==
    /\ Len(punctuated) < MaxApply
    /\ punctuated' =
          Append(punctuated,
                 addPunctuationIfNotExists(
                     IF punctuated = <<>> THEN text
                     ELSE [alt |-> "str",
                           transcript |-> punctuated[Len(punctuated)]]))
    /\ UNCHANGED <<ledgerVars, adapterVars, session, capStart, seamLast,
                   criticalLog, clearCaptionTimer, text>>

NextPunct == Normalize

SpecPunct == InitPunct /\ [][NextPunct]_vars

\* --------------------------------------------- _trimCurrentResults on its own
\* A ledger with any window, before or after a session, and an adapter that
\* was not started.
InitTrim ==
    /\ currentResults \in TrimWindows
    /\ wholeLog \in {<<>>, <<[isFinal |-> TRUE, alt |-> "str",
                             transcript |-> <<"a">>]>>}
    /\ interimResults \in {<<>>, <<[isFinal |-> FALSE, alt |-> "str",
                                   transcript |-> <<"a">>]>>}
    /\ indexFinished = IF currentResults = <<>> THEN -1 ELSE 0
    /\ recognizer = "undefined"
    /\ isSpeechAvailable = FALSE
    /\ available = TRUE
    /\ session = "idle"
    /\ capStart = "none"
    /\ seamLast = <<>>
    /\ criticalLog = <<>>
    /\ clearCaptionTimer = "unset"
    /\ text = [alt |-> "str", transcript |-> <<>>]
    /\ punctuated = <<>>

\* One call of speechLog._trimCurrentResults()
Trim ==
    /\ SetLedger(trimCurrentResults(Ledger))
    /\ UNCHANGED <<adapterVars, session, capStart, seamLast, criticalLog,
                   clearCaptionTimer, punctVars>>

NextTrim == Trim

SpecTrim == InitTrim /\ [][NextTrim]_vars

\* ------------------------------------------------------------ observations
\* The characters currentResults holds.
RECURSIVE WindowChars(_)
WindowChars(cur) ==
    IF cur = <<>> THEN 0 ELSE Len(cur[1].transcript) + WindowChars(Tail(cur))

\* a is a subsequence of b: the elements of a occur in b in the same order.
RECURSIVE IsSubseq(_, _)
IsSubseq(a, b) ==
    IF a = <<>> THEN TRUE
    ELSE IF b = <<>> THEN FALSE
    ELSE IF a[1] = b[1] THEN IsSubseq(Tail(a), Tail(b))
    ELSE IsSubseq(a, Tail(b))

\* Line l1 occurs in the log before an occurrence of line l2.
InOrder(log, l1, l2) ==
    \E i, j \in 1..Len(log) : i < j /\ log[i] = l1 /\ log[j] = l2

\* What speechRecognizer.start() would return in the current state.
StartReturns == SpeechRecognizer_start(Ledger, session).ret

\* ------------------------------------------------------------------ claims
\* C1 (as claimed): after every update() the transcripts of currentResults
\* total at most maxCharacters characters.
C1_WindowWithinBudget ==
    WindowChars(currentResults) <= maxCharacters

\* The restart seam: the `end` handler that just ran archived seamLast as the
\* last entry of the window and restarted the capability, and the first result
\* event of the new session leaves a final entry at k in the window whose
\* transcript starts with the archived one.
ResentAt(k) ==
    /\ capStart = "started"
    /\ seamLast # <<>>
    /\ k \in 1..Len(currentResults')
    /\ startsWith(currentResults'[k].transcript, seamLast[1].transcript)

\* C2 (as claimed): when the restarted session re-sends the archived utterance
\* T (or a longer version of it), getWholeLog() does not hold both the line of
\* T and the line of the re-sent transcript.
C2_NoDuplicateAcrossSeam ==
    [][\A k \in 1..MaxLog :
         ResentAt(k) =>
           ~InOrder(getWholeLog(Ledger'), logLine(seamLast[1]),
                    logLine(currentResults'[k]))]_vars

\* C2 (amended): the archived entry is not touched and the re-sent transcript
\* is kept as an entry of its own, so getWholeLog() holds the line of T and,
\* after it, the line of the re-sent transcript.
C2_ResentKeptBesideArchived ==
    [][\A k \in 1..MaxLog :
         ResentAt(k) =>
           /\ wholeLog' = wholeLog
           /\ wholeLog # <<>>
           /\ wholeLog[Len(wholeLog)] = seamLast[1]
           /\ InOrder(getWholeLog(Ledger'), logLine(seamLast[1]),
                      logLine(currentResults'[k]))]_vars

\* C2 witness: the window of the running session starts with a longer version
\* of the last archived entry.
C2_Witness ==
    /\ session = "listening"
    /\ wholeLog # <<>>
    /\ currentResults # <<>>
    /\ currentResults[1].transcript # wholeLog[Len(wholeLog)].transcript
    /\ startsWith(currentResults[1].transcript,
                  wholeLog[Len(wholeLog)].transcript)

\* C3 (as claimed): every line getWholeLog() returned before an `end` event
\* that restarts the recognizer is still returned after it, in the same order.
C3_NoLineLostAcrossSeam ==
    [][(OnEnd /\ available) =>
         IsSubseq(getWholeLog(Ledger), getWholeLog(Ledger'))]_vars

\* C3 (amended): after such an `end` event getWholeLog() returns exactly the
\* lines of wholeLog and currentResults it returned before, in the same order;
\* the lines of interimResults are dropped.
C3_FinalLinesKeptAcrossSeam ==
    [][(OnEnd /\ available) =>
         getWholeLog(Ledger') =
           getWholeLog([Ledger EXCEPT !.interimResults = <<>>])]_vars

\* C3 witness: a restart after which two lines are archived, the second one
\* archived by this `end` event.
C3_Witness ==
    /\ capStart = "started"
    /\ seamLast # <<>>
    /\ Len(wholeLog) = 2

\* C4 (as claimed): onCritical is invoked at most once, and exactly once when
\* the adapter was ever judged incapable (available = false).
C4_CriticalExactlyOnce ==
    /\ Len(criticalLog) <= 1
    /\ available = FALSE => Len(criticalLog) = 1

\* C5: an error other than no-speech and aborted that arrives before any
\* speechstart disables the adapter and passes the error code and message to
\* onCritical; once onCritical was invoked start() returns false.
C5_FatalErrorDisables ==
    /\ [](criticalLog # <<>> => StartReturns = "false")
    /\ [][\A ev \in ErrorEvents :
            (OnError(ev) /\ isSpeechAvailable = FALSE
               /\ ev.error \notin {"no-speech", "aborted"}) =>
              /\ available' = FALSE
              /\ criticalLog' = Append(criticalLog, <<ev.error, ev.message>>)]_vars

\* C5 witness: a network error disabled the adapter and the session it arrived
\* in has ended without a restart.
C5_Witness ==
    /\ session = "idle"
    /\ capStart = "none"
    /\ available = FALSE
    /\ criticalLog = << <<"network", "detail">> >>

\* C6 (as claimed): init() without a recognizer implementation disables the
\* adapter, returns false and invokes onCritical.
C6_MissingCapabilitySurfaced ==
    [][(OwnerInit("none") /\ recognizer = "undefined") =>
         /\ available' = FALSE
         /\ SpeechRecognizer_init("none").ret = "false"
         /\ Len(criticalLog') = Len(criticalLog) + 1]_vars

\* C7: once available is false it stays false, and no handler invokes the
\* capability's start.
C7_DisabledIsTerminal ==
    [][available = FALSE => (available' = FALSE /\ capStart' = "none")]_vars

\* C7 witness: the session has ended after a fatal error.
C7_Witness ==
    /\ available = FALSE
    /\ session = "idle"
    /\ recognizer = "object"
    /\ wholeLog # <<>>

\* C8: every `end` event checkpoints the ledger; an enabled adapter starts the
\* capability again in the same handler (the session is listening afterwards),
\* a disabled one does not.
C8_EndCheckpointsAndRestarts ==
    [][OnEnd =>
         /\ Ledger' = SpeechLog_init(Ledger)
         /\ IF available
            THEN capStart' = "started" /\ session' = "listening"
            ELSE capStart' = "none" /\ session' = "idle"]_vars

\* C8 witness: a restart that archived an entry, after an earlier one did.
C8_Witness ==
    /\ capStart = "started"
    /\ session = "listening"
    /\ seamLast # <<>>
    /\ Len(wholeLog) = 2
    /\ wholeLog[1] # wholeLog[2]

\* C9: no result event, whatever it holds, lowers indexFinished: in every
\* state update() leaves indexFinished at least as high as it found it.
C9_IndexMonotonic ==
    \A ev \in Events :
        SpeechLog_update(Ledger, ev).ledger.indexFinished >= indexFinished

\* C9 witness: index 1 is already final while results keep arriving.
C9_Witness ==
    /\ session = "listening"
    /\ indexFinished = 1
    /\ currentResults # <<>>

\* C10 (as claimed): while a session runs (no `end`, no new session started),
\* no handler and no owner call lowers indexFinished.
C10_IndexMonotonicInSession ==
    [][(session = "listening" /\ session' = "listening"
          /\ capStart' # "started") =>
         indexFinished' >= indexFinished]_vars
\* The events whose scan collects exactly one item, a final result.
OneFinalEvents ==
    { ev \in Events :
        LET ext == extractUpdate(Ledger, ev)
        IN ~ext.threw /\ Len(ext.items) = 1 /\ ext.items[1].isFinal }

\* C11: when update() applies one final result, currentResults either keeps
\* its length with its last entry replaced by the new result (the last entry's
\* transcript is a prefix of, or equal to, the new one), or grows by exactly
\* one entry with the new result last (no prefix, or the window was empty);
\* the entries before the last are untouched either way.
C11_ReplaceOrAppend ==
    [](\A ev \in OneFinalEvents :
           LET item == extractUpdate(Ledger, ev).items[1]
               cur == currentResults
               new == SpeechLog_update(Ledger, ev).ledger.currentResults
           IN IF cur # <<>> /\ startsWith(item.transcript, cur[Len(cur)].transcript)
              THEN /\ Len(new) = Len(cur)
                   /\ new[Len(new)].transcript = item.transcript
                   /\ SubSeq(new, 1, Len(new) - 1) = SubSeq(cur, 1, Len(cur) - 1)
              ELSE /\ Len(new) = Len(cur) + 1
                   /\ new[Len(new)].transcript = item.transcript
                   /\ SubSeq(new, 1, Len(cur)) = cur)

\* C11 witness: a window that grew (its last transcript does not extend the
\* one before) and whose last entry a longer final result can still replace.
C11_Witness ==
    /\ session = "listening"
    /\ Len(currentResults) = 2
    /\ ~startsWith(currentResults[2].transcript, currentResults[1].transcript)
    /\ \E ev \in OneFinalEvents :
          LET item == extractUpdate(Ledger, ev).items[1]
          IN /\ item.transcript # currentResults[2].transcript
             /\ startsWith(item.transcript, currentResults[2].transcript)

\* C12: every entry of currentResults and of wholeLog is a final result with a
\* non-empty string transcript, and no result with an empty or missing
\* transcript is among the items _extractUpdate collects.
C12_OnlyNonEmptyFinals ==
    /\ \A i \in 1..Len(wholeLog) :
          /\ wholeLog[i].isFinal
          /\ wholeLog[i].alt = "str"
          /\ Len(wholeLog[i].transcript) > 0
    /\ \A i \in 1..Len(currentResults) :
          /\ currentResults[i].isFinal
          /\ currentResults[i].alt = "str"
          /\ Len(currentResults[i].transcript) > 0
    /\ \A ev \in Events :
          LET items == extractUpdate(Ledger, ev).items
          IN \A i \in 1..Len(items) :
                items[i].alt = "str" /\ Len(items[i].transcript) > 0

\* C12 witness: a final result at index 0 was scanned in this session and
\* nothing entered the ledger.
C12_Witness ==
    /\ session = "listening"
    /\ indexFinished = 0
    /\ wholeLog = <<>>
    /\ currentResults = <<>>
    /\ interimResults = <<>>

\* C13: init() leaves wholeLog = old wholeLog followed by old currentResults,
\* currentResults and interimResults empty and indexFinished = -1: as a
\* function of every reachable ledger, and in every step whose handler calls
\* it (`end`, or start() passing its guard).
C13_InitCheckpoints ==
    /\ [](SpeechLog_init(Ledger) =
            [wholeLog |-> wholeLog \o currentResults,
             currentResults |-> <<>>,
             interimResults |-> <<>>,
             indexFinished |-> -1])
    /\ [][(OnEnd \/ capStart' # "none") =>
            /\ wholeLog' = wholeLog \o currentResults
            /\ currentResults' = <<>>
            /\ interimResults' = <<>>
            /\ indexFinished' = -1]_vars

\* C13 witness: a session with a non-empty window ended on a disabled adapter
\* (one init(), no restart); its entry is archived and the index reads -1.
C13_Witness ==
    /\ session = "idle"
    /\ seamLast # <<>>
    /\ wholeLog = seamLast
    /\ currentResults = <<>>
    /\ interimResults = <<>>
    /\ indexFinished = -1

\* C14: init() twice is init() once, and the end-then-restart path (init() in
\* the `end` handler, again inside start()) appends each entry of
\* currentResults to wholeLog exactly once.
C14_InitIdempotent ==
    /\ [](SpeechLog_init(SpeechLog_init(Ledger)) = SpeechLog_init(Ledger))
    /\ [][(OnEnd /\ capStart' = "started") =>
            /\ wholeLog' = wholeLog \o currentResults
            /\ Ledger' = SpeechLog_init(Ledger)]_vars

\* C14 witness: the restart path ran on a window of one entry and wholeLog
\* holds that entry once.
C14_Witness ==
    /\ capStart = "started"
    /\ session = "listening"
    /\ seamLast # <<>>
    /\ wholeLog = seamLast
    /\ currentResults = <<>>

\* C15: getWholeLog() returns one line per entry of wholeLog, then of
\* currentResults, then of interimResults (its length is the sum of the three
\* lengths); each line is the entry's transcript, closed by a punctuation mark,
\* and a line break.  The function only reads the ledger.
C15_WholeLogLines ==
    LET log == getWholeLog(Ledger)
        nW == Len(wholeLog)
        nC == Len(currentResults)
        nI == Len(interimResults)
    IN /\ Len(log) = nW + nC + nI
       /\ \A i \in 1..nW : log[i] = logLine(wholeLog[i])
       /\ \A i \in 1..nC : log[nW + i] = logLine(currentResults[i])
       /\ \A i \in 1..nI : log[nW + nC + i] = logLine(interimResults[i])
       /\ \A i \in 1..Len(log) :
             /\ Len(log[i]) >= 2
             /\ log[i][Len(log[i])] = "LF"
             /\ log[i][Len(log[i]) - 1] \in Marks

\* C15 witness: the three lists are non-empty at once, and the archived line
\* differs from the window's.
C15_Witness ==
    /\ wholeLog # <<>>
    /\ currentResults # <<>>
    /\ interimResults # <<>>
    /\ wholeLog[1] # currentResults[1]

\* C16: _addPunctuationIfNotExists(t) is empty when t is empty or not a
\* string, t itself when t ends in one of the eight marks, and t followed by
\* U+3002 otherwise; what it returns for a non-empty string ends in a mark;
\* applying it to its own result changes nothing.
C16_PunctuationNormalized ==
    /\ Len(punctuated) >= 1 =>
          LET t == text.transcript
              out == punctuated[1]
          IN /\ (text.alt # "str" \/ t = <<>>) => out = <<>>
             /\ (text.alt = "str" /\ t # <<>>) =>
                   /\ t[Len(t)] \in Marks => out = t
                   /\ t[Len(t)] \notin Marks => out = t \o <<"U+3002">>
                   /\ out # <<>>
                   /\ out[Len(out)] \in Marks
    /\ \A i \in 2..Len(punctuated) : punctuated[i] = punctuated[i - 1]

\* C16 witness: a text of two characters ending in a half-width mark has been
\* normalized twice and came back as it was.
C16_Witness ==
    /\ Len(punctuated) = 2
    /\ text.alt = "str"
    /\ Len(text.transcript) = 2
    /\ text.transcript[2] = "?"
    /\ punctuated[2] = text.transcript

\* The first index update() scans for event ev in the current state.
ScanFrom(ev) == Max(indexFinished, ev.resultIndex)

\* The result's top transcript is neither null nor empty.
HasText(r) == r.alt = "str" /\ Len(r.transcript) > 0

\* No result of ev in the scanned range has a top transcript with text.
NoTextInRange(ev) ==
    \A ix \in ScanFrom(ev)..(Len(ev.results) - 1) :
        ix >= 0 => ~HasText(ev.results[ix + 1])

\* The highest index of a final result of ev in the scanned range, or the
\* current indexFinished when that is higher.
RECURSIVE HighestFinal(_, _)
HighestFinal(ev, ix) ==
    IF ix < ScanFrom(ev) \/ ix < 0 THEN indexFinished
    ELSE IF ev.results[ix + 1].isFinal THEN Max(ix, indexFinished)
    ELSE HighestFinal(ev, ix - 1)

IsInterimText(r) == ~r.isFinal /\ HasText(r)

\* C18: interimResults holds only non-final results, and an update() that
\* returns true leaves in it exactly the non-final results with text of the
\* event's scanned range, in order: nothing from before the call stays.
C18_InterimReplaced ==
    [](/\ \A i \in 1..Len(interimResults) : ~interimResults[i].isFinal
       /\ \A ev \in Events :
             LET u == SpeechLog_update(Ledger, ev)
             IN u.ret = "true" =>
                   u.ledger.interimResults =
                       SelectSeq(SubSeq(ev.results, ScanFrom(ev) + 1,
                                        Len(ev.results)),
                                 IsInterimText))

\* C18 witness: interim results are pending beside final ones, and an event
\* with text and no interim result would leave none pending.
C18_Witness ==
    /\ session = "listening"
    /\ interimResults # <<>>
    /\ currentResults # <<>>
    /\ \E ev \in Events :
          LET u == SpeechLog_update(Ledger, ev)
          IN u.ret = "true" /\ u.ledger.interimResults = <<>>

\* C19: once init() has run (recognizer is no longer undefined), init() is a
\* no-op: whatever window exposes, it returns the current availability and
\* leaves recognizer, available and isSpeechAvailable, the ledger, the session
\* and the onCritical record as they are.
C19_InitOnlyOnce ==
    /\ [](recognizer # "undefined" =>
            \A windowApi \in WindowApis :
                SpeechRecognizer_init(windowApi) =
                    [recognizer |-> recognizer, available |-> available,
                     ret |-> IF available THEN "true" ELSE "false"])
    /\ [][(recognizer # "undefined"
             /\ \E windowApi \in WindowApis : OwnerInit(windowApi)) =>
            UNCHANGED <<adapterVars, ledgerVars, session, criticalLog>>]_vars

\* C19 witness: a running session on an adapter a fatal error has disabled;
\* init() was the last call and start() was not attempted.
C19_Witness ==
    /\ recognizer = "object"
    /\ available = FALSE
    /\ session = "listening"
    /\ criticalLog # <<>>
    /\ currentResults # <<>>
    /\ capStart = "none"
    /\ seamLast = <<>>

\* C20 (as claimed): start() returns false without checkpointing the ledger or
\* starting the capability when the adapter is not available or holds no
\* recognizer; otherwise it checkpoints the ledger, starts the capability and
\* returns true.
C20_StartOutcome ==
    LET r == SpeechRecognizer_start(Ledger, session)
    IN IF available # TRUE \/ recognizer \in {"undefined", "null"}
       THEN /\ r.ret = "false"
            /\ r.ledger = Ledger
            /\ r.capStart = "none"
            /\ r.session = session
       ELSE /\ r.ledger = SpeechLog_init(Ledger)
            /\ r.capStart = "started"
            /\ r.ret = "true"

\* C21: an error with code no-speech or aborted, or any error once
\* onspeechstart was delivered (the flag is never cleared), changes neither
\* the adapter nor the ledger nor the session and does not call onCritical;
\* and an adapter that has seen onspeechstart stays available.
C21_RecoverableErrorIgnored ==
    /\ [][(\E ev \in ErrorEvents :
              /\ OnError(ev)
              /\ (ev.error \in {"no-speech", "aborted"}
                    \/ isSpeechAvailable = TRUE)) =>
            UNCHANGED <<adapterVars, ledgerVars, session, criticalLog>>]_vars
    /\ [][isSpeechAvailable = TRUE =>
            /\ isSpeechAvailable' = TRUE
            /\ available' = available
            /\ criticalLog' = criticalLog]_vars

\* C21 witness: in a later session than the one that archived a line, speech
\* has been confirmed, the adapter is available and onCritical was never
\* called, while errors of every code could be delivered.
C21_Witness ==
    /\ session = "listening"
    /\ isSpeechAvailable = TRUE
    /\ available = TRUE
    /\ criticalLog = <<>>
    /\ wholeLog # <<>>
    /\ currentResults # <<>>
    /\ capStart = "none"

\* The pieces in one string.
RECURSIVE Flatten(_)
Flatten(pieces) ==
    IF pieces = <<>> THEN <<>> ELSE pieces[1] \o Flatten(Tail(pieces))

\* The caption of ledger L: each transcript of currentResults closed by a mark
\* (U+3002 when it ends in none), then each transcript of interimResults as
\* it is.
CaptionOf(L) ==
    Flatten([i \in 1..Len(L.currentResults) |->
                LET t == L.currentResults[i].transcript
                IN IF t[Len(t)] \in Marks THEN t ELSE t \o <<"U+3002">>]
            \o [i \in 1..Len(L.interimResults) |->
                L.interimResults[i].transcript])

\* C22: for every result event the handler calls onUpdated once when update()
\* returns true, with the caption of the ledger as update() left it, and not
\* at all otherwise.
C22_UpdatedOncePerChange ==
    [](\A ev \in Events :
          LET h == onresult(Ledger, ev)
          IN IF h.ret = "true"
             THEN h.updated = <<CaptionOf(h.ledger)>>
             ELSE h.updated = <<>>)

\* C22 witness: a caption was emitted (its timer is pending) in the first
\* session, and the ledger holds a final and an interim result.
C22_Witness ==
    /\ session = "listening"
    /\ clearCaptionTimer = "pending"
    /\ wholeLog = <<>>
    /\ Len(currentResults) = 1
    /\ Len(interimResults) = 1
    /\ getCurrentSpeech(Ledger) = <<"a", "b", "U+3002", "a">>

\* C23 (as claimed): update() returns a boolean for every event, malformed
\* ones included (a null transcript, a result without alternative, a
\* resultIndex below 0 or past the end): no TypeError leaves it.
C23_UpdateNeverThrows ==
    \A ev \in Events : SpeechLog_update(Ledger, ev).ret \in {"true", "false"}

\* The last k entries of cur hold at most maxCharacters characters.
Fits(cur, k) ==
    WindowChars(SubSeq(cur, Len(cur) - k + 1, Len(cur))) <= maxCharacters

\* The length of the longest suffix of cur within the budget.
LongestFit(cur) ==
    CHOOSE k \in 0..Len(cur) :
        Fits(cur, k) /\ \A j \in (k + 1)..Len(cur) : ~Fits(cur, j)

\* C24: _trimCurrentResults leaves currentResults equal to the longest suffix
\* of what it held whose transcripts total at most maxCharacters (whole
\* entries; empty when the newest alone is over the budget; unchanged when
\* the total is within it) and leaves wholeLog, interimResults and
\* indexFinished as they are.
C24_TrimKeepsLongestSuffix ==
    LET T == trimCurrentResults(Ledger)
        n == Len(currentResults)
    IN /\ T.currentResults =
             SubSeq(currentResults, n - LongestFit(currentResults) + 1, n)
       /\ WindowChars(T.currentResults) <= maxCharacters
       /\ WindowChars(currentResults) <= maxCharacters =>
             T.currentResults = currentResults
       /\ (n > 0 /\ Len(currentResults[n].transcript) > maxCharacters) =>
             T.currentResults = <<>>
       /\ T.wholeLog = wholeLog
       /\ T.interimResults = interimResults
       /\ T.indexFinished = indexFinished

\* C24 witness: a window of three entries over the budget of which trimming
\* keeps the last two, beside an archived line and an interim result.
C24_Witness ==
    /\ Len(currentResults) = 3
    /\ WindowChars(currentResults) > maxCharacters
    /\ Len(trimCurrentResults(Ledger).currentResults) = 2
    /\ wholeLog # <<>>
    /\ interimResults # <<>>

\* C25: wholeLog is append-only.  What it held before a ledger operation is a
\* prefix of what it holds after: for init(), update() and
\* _trimCurrentResults as functions of every reachable ledger (getCurrentSpeech
\* and getWholeLog assign nothing), and in every step of the program; and a
\* step that changes it is one whose handler calls init() (`end`, or start()
\* passing its guard), which appends the window.
C25_WholeLogAppendOnly ==
    /\ [](/\ startsWith(SpeechLog_init(Ledger).wholeLog, wholeLog)
          /\ trimCurrentResults(Ledger).wholeLog = wholeLog
          /\ \A ev \in Events :
                SpeechLog_update(Ledger, ev).ledger.wholeLog = wholeLog)
    /\ [][startsWith(wholeLog', wholeLog)]_vars
    /\ [][wholeLog' # wholeLog =>
            /\ OnEnd \/ capStart' # "none"
            /\ wholeLog' = wholeLog \o currentResults]_vars

\* C25 witness: two sessions have each archived a different line and a third
\* has an interim result pending.
C25_Witness ==
    /\ session = "listening"
    /\ Len(wholeLog) = 2
    /\ wholeLog[1] # wholeLog[2]
    /\ interimResults # <<>>
    /\ isSpeechAvailable = FALSE

\* C26 (as claimed): recognizer.start() is invoked only when no session is
\* active: no handler and no owner call invokes it on a listening recognizer
\* (where the platform answers with InvalidStateError).
C26_StartOnlyWhenIdle ==
    capStart # "InvalidStateError"

\* C27 (as claimed): every caption update leaves exactly one timer pending,
\* and when the timer fires its callback runs to completion: each method it
\* calls on the ledger is one the ledger defines.
C27_TimerCallbackCompletes ==
    /\ [][(\E ev \in Events : OnResult(ev) /\ onresult(Ledger, ev).updated # <<>>)
            => clearCaptionTimer' = "pending"]_vars
    /\ [][TimerFires => clearCaptionCallback = "done"]_vars

\* C28 (as claimed): currentResults never holds two adjacent entries of which
\* the earlier one's transcript is a prefix of the later one's.
C28_NoAdjacentPrefixPair ==
    \A i \in 1..(Len(currentResults) - 1) :
        ~startsWith(currentResults[i + 1].transcript,
                    currentResults[i].transcript)

\* C28 (amended): a final result that _pushUpdate appends to a non-empty
\* currentResults does not have the previous last entry's transcript as a
\* prefix, and the entries before are as they were: appending makes no
\* adjacent prefix pair (replacing the last entry by a longer version can).
C28_AppendMakesNoPrefixPair ==
    [](\A r \in Results :
          (r.isFinal /\ HasText(r)) =>
              LET cur == currentResults
                  new == pushUpdate(Ledger, r).currentResults
              IN (cur # <<>> /\ Len(new) > Len(cur)) =>
                    /\ SubSeq(new, 1, Len(cur)) = cur
                    /\ ~startsWith(new[Len(new)].transcript,
                                   cur[Len(cur)].transcript))

\* C28 witness: two equal entries side by side, the second put there by
\* replacing a shorter one.
C28_Witness ==
    /\ session = "listening"
    /\ Len(currentResults) = 2
    /\ currentResults[1].transcript = <<"a", "b">>
    /\ currentResults[2].transcript = <<"a", "b">>

\* C29 (as claimed): update() with the same event twice in a row leaves
\* wholeLog, currentResults, interimResults and indexFinished as update() with
\* it once does.
C29_DuplicateAbsorbed ==
    \A ev \in Events :
        LET once == SpeechLog_update(Ledger, ev).ledger
        IN SpeechLog_update(once, ev).ledger = once

\* C29 (amended): update() with the same event twice in a row leaves wholeLog,
\* currentResults and indexFinished as update() with it once does, and leaves
\* in interimResults a suffix of what the first application left (the second
\* scan starts at the indexFinished the first one raised).
C29_DuplicateKeepsFinals ==
    [](\A ev \in Events :
          LET once == SpeechLog_update(Ledger, ev).ledger
              twice == SpeechLog_update(once, ev).ledger
              n == Len(once.interimResults)
          IN /\ twice.wholeLog = once.wholeLog
             /\ twice.currentResults = once.currentResults
             /\ twice.indexFinished = once.indexFinished
             /\ \E k \in 0..n :
                   twice.interimResults = SubSeq(once.interimResults, k + 1, n))

\* C29 witness: an event has left a final result at index 1 and an interim
\* one below it, and an event holding an interim result, delivered now, would
\* change nothing but interimResults, which it would empty.
C29_Witness ==
    /\ session = "listening"
    /\ indexFinished = 1
    /\ Len(currentResults) = 1
    /\ Len(interimResults) = 1
    /\ \E ev \in Events :
          LET u == SpeechLog_update(Ledger, ev)
          IN /\ \E i \in 1..Len(ev.results) : IsInterimText(ev.results[i])
             /\ u.ret = "true"
             /\ u.ledger = [Ledger EXCEPT !.interimResults = <<>>]

=============================================================================
